---- MODULE Spec2Model ----
\* ts-acl-hosts-gen: the device inventory of a tailnet is fetched and written
\* into the top-level "hosts" member of a HuJSON policy file (src/main.go).
\*
\* Strings that the program takes apart (device names, JSON pointers) are
\* sequences of one-character strings. A file's content is the sequence of its
\* lexical tokens: punctuation, whitespace, comments, string and number
\* literals, each token a record [k |-> kind, s |-> characters].
EXTENDS Integers, Sequences, FiniteSets, TLC

\* ------------------------------------------------------------------ bounds

\* Longest file content drawn as an input, in chunks of TextChunks.
MaxChunks == 4
\* Longest device name drawn as an input, in chunks of NameChunks.
MaxNameChunks == 5
\* Most devices the directory call returns.
MaxDevices == 2
\* Most times the tool is run against the same policy file.
MaxRuns == 2

\* ------------------------------------------------------------------ tokens

Tok(k, s) == [k |-> k, s |-> s]

LBrace == Tok("punct", <<"{">>)
RBrace == Tok("punct", <<"}">>)
Colon == Tok("punct", <<":">>)
Comma == Tok("punct", <<",">>)
\* a newline, a space, and a run of other blanks
NL == Tok("ws", <<"\n">>)
SP == Tok("ws", <<" ">>)
TAB == Tok("ws", <<"\t">>)
\* a comment
CM == Tok("cm", <<"/", "*", "*", "/">>)
Str(s) == Tok("str", s)
Num(s) == Tok("num", s)
NoTok == Tok("none", <<>>)

IsExtra(t) == t.k \in {"ws", "cm"}

hostsKey == <<"h", "o", "s", "t", "s">>
aclsKey == <<"a", "c", "l", "s">>

\* ------------------------------------------------------- HuJSON value tree

\* hujson.Value: BeforeExtra, the value proper, AfterExtra. A literal holds its
\* token; an object holds its members (name and value are Values), the extras
\* before its closing brace (tail) and whether a trailing comma is written (tc).
Lit(t) ==
    [kind |-> "lit", before |-> <<>>, lit |-> t, members |-> <<>>,
     tail |-> <<>>, tc |-> FALSE, after |-> <<>>]

Obj(ms) ==
    [kind |-> "obj", before |-> <<>>, lit |-> NoTok, members |-> ms,
     tail |-> <<>>, tc |-> FALSE, after |-> <<>>]

ParseFail == [ok |-> FALSE, v |-> Lit(NoTok), next |-> 0]
MembersFail == [ok |-> FALSE, members |-> <<>>, tail |-> <<>>, tc |-> FALSE, next |-> 0]

RECURSIVE SkipExtra(_, _)
SkipExtra(toks, i) ==
    IF i <= Len(toks) /\ IsExtra(toks[i]) THEN SkipExtra(toks, i + 1) ELSE i

RECURSIVE ParseValue(_, _)
RECURSIVE ParseMembers(_, _, _)

\* One value starting at token i, with the extras around it.
ParseValue(toks, i) ==
    LET j == SkipExtra(toks, i)
        before == SubSeq(toks, i, j - 1)
    IN  IF j > Len(toks) THEN ParseFail
        ELSE IF toks[j].k \in {"str", "num"} THEN
            LET e == SkipExtra(toks, j + 1)
            IN  [ok |-> TRUE,
                 v |-> [Lit(toks[j]) EXCEPT !.before = before,
                                            !.after = SubSeq(toks, j + 1, e - 1)],
                 next |-> e]
        ELSE IF toks[j] = LBrace THEN
            LET r == ParseMembers(toks, j + 1, <<>>)
                e == SkipExtra(toks, r.next)
            IN  IF ~r.ok THEN ParseFail
                ELSE [ok |-> TRUE,
                      v |-> [Obj(r.members) EXCEPT !.before = before,
                                                   !.tail = r.tail,
                                                   !.tc = r.tc,
                                                   !.after = SubSeq(toks, r.next, e - 1)],
                      next |-> e]
        ELSE ParseFail

\* The members of an object after its opening brace or after a comma.
ParseMembers(toks, i, acc) ==
    LET j == SkipExtra(toks, i)
    IN  IF j > Len(toks) THEN MembersFail
        ELSE IF toks[j] = RBrace THEN
            [ok |-> TRUE, members |-> acc, tail |-> SubSeq(toks, i, j - 1),
             tc |-> acc # <<>>, next |-> j + 1]
        ELSE
            LET n == ParseValue(toks, i)
            IN  IF ~n.ok \/ n.v.kind # "lit" \/ n.v.lit.k # "str" THEN MembersFail
                ELSE IF n.next > Len(toks) \/ toks[n.next] # Colon THEN MembersFail
                ELSE
                    LET val == ParseValue(toks, n.next + 1)
                        ms == Append(acc, [name |-> n.v, value |-> val.v])
                    IN  IF ~val.ok \/ val.next > Len(toks) THEN MembersFail
                        ELSE IF toks[val.next] = Comma THEN
                            ParseMembers(toks, val.next + 1, ms)
                        ELSE IF toks[val.next] = RBrace THEN
                            [ok |-> TRUE, members |-> ms, tail |-> <<>>,
                             tc |-> FALSE, next |-> val.next + 1]
                        ELSE MembersFail

\* hujson.Parse: the whole input is one value.
Parse(toks) ==
    LET r == ParseValue(toks, 1)
    IN  IF r.ok /\ r.next = Len(toks) + 1 THEN r ELSE ParseFail

RECURSIVE String(_)
RECURSIVE MembersString(_, _)

\* Value.String: the text of a value, its extras included.
String(v) ==
    v.before
    \o (IF v.kind = "lit" THEN <<v.lit>>
        ELSE <<LBrace>> \o MembersString(v.members, v.tc) \o v.tail \o <<RBrace>>)
    \o v.after

MembersString(ms, tc) ==
    IF ms = <<>> THEN <<>>
    ELSE String(Head(ms).name) \o <<Colon>> \o String(Head(ms).value)
         \o (IF Len(ms) > 1 \/ tc THEN <<Comma>> ELSE <<>>)
         \o MembersString(Tail(ms), tc)


\* ----------------------------------------------------------- Value.Format

Comments(e) == SelectSeq(e, LAMBDA t : t.k = "cm")

RECURSIVE AfterEach(_, _)
AfterEach(cs, w) ==
    IF cs = <<>> THEN <<>> ELSE <<Head(cs), w>> \o AfterEach(Tail(cs), w)

RECURSIVE BeforeEach(_, _)
BeforeEach(cs, w) ==
    IF cs = <<>> THEN <<>> ELSE <<w, Head(cs)>> \o BeforeEach(Tail(cs), w)

RECURSIVE FormatAt(_, _)
RECURSIVE FormatMembers(_)

\* The canonical layout of a value at a place (top, name or value): comments
\* stay where they are, whitespace is laid out anew, an object with members
\* has one member per line and a trailing comma.
FormatAt(v, place) ==
    LET cb == Comments(v.before)
        ca == Comments(v.after)
        core == IF v.kind = "lit" THEN v
                ELSE [v EXCEPT !.members = FormatMembers(v.members),
                               !.tc = v.members # <<>>,
                               !.tail = IF v.members = <<>>
                                        THEN Comments(v.tail)
                                        ELSE <<NL>> \o AfterEach(Comments(v.tail), NL)]
    IN  [core EXCEPT
            !.before = CASE place = "top" -> AfterEach(cb, NL)
                         [] place = "name" -> <<NL>> \o AfterEach(cb, NL)
                         [] OTHER -> <<SP>> \o AfterEach(cb, SP),
            !.after = CASE place = "top" -> BeforeEach(ca, SP) \o <<NL>>
                        [] place = "name" -> ca
                        [] OTHER -> BeforeEach(ca, SP)]

FormatMembers(ms) ==
    IF ms = <<>> THEN <<>>
    ELSE <<[name |-> FormatAt(Head(ms).name, "name"),
            value |-> FormatAt(Head(ms).value, "value")]>>
         \o FormatMembers(Tail(ms))

Format(v) == FormatAt(v, "top")

\* ------------------------------------------------- Value.Find, Value.Patch

\* The least index of "/" in s, or Len(s) + 1.
RECURSIVE SlashAt(_, _)
SlashAt(s, i) ==
    IF i > Len(s) \/ s[i] = "/" THEN i ELSE SlashAt(s, i + 1)

\* The index of the first member of object v named name, or 0.
RECURSIVE MemberFrom(_, _, _)
MemberFrom(ms, name, i) ==
    IF i > Len(ms) THEN 0
    ELSE IF ms[i].name.lit.s = name THEN i
    ELSE MemberFrom(ms, name, i + 1)

MemberIndex(v, name) == IF v.kind = "obj" THEN MemberFrom(v.members, name, 1) ELSE 0

NotFound == [found |-> FALSE, v |-> Lit(NoTok)]

\* Value.Find(ptr): ptr is a JSON pointer (RFC 6901): empty, or "/" and a
\* member name, repeated. Nothing is found for a pointer that is not one.
RECURSIVE Find(_, _)
Find(v, ptr) ==
    IF ptr = <<>> THEN [found |-> TRUE, v |-> v]
    ELSE IF Head(ptr) # "/" THEN NotFound
    ELSE LET rest == Tail(ptr)
             n == SlashAt(rest, 1)
             idx == MemberIndex(v, SubSeq(rest, 1, n - 1))
         IN  IF idx = 0 THEN NotFound
             ELSE Find(v.members[idx].value, SubSeq(rest, n, Len(rest)))

PatchFail == [ok |-> FALSE, v |-> Lit(NoTok)]

\* Patch, but a member that exists keeps the entries of its old value that the
\* new value does not name.
PatchMerge(v, op, path, val) ==
    IF path = <<>> \/ Head(path) # "/" \/ v.kind # "obj" THEN PatchFail
    ELSE LET name == Tail(path)
             idx == MemberIndex(v, name)
             old == v.members[idx].value
             kept == SelectSeq(old.members,
                               LAMBDA m : MemberIndex(val, m.name.lit.s) = 0)
         IN  IF idx > 0 THEN
                 [ok |-> TRUE,
                  v |-> [v EXCEPT !.members[idx].value =
                            [val EXCEPT !.members = kept \o val.members]]]
             ELSE [ok |-> TRUE,
                   v |-> [v EXCEPT !.members =
                            Append(@, [name |-> Lit(Str(name)), value |-> val])]]

\* Patch, but the patched member is all that is left of the object.
PatchAlone(v, op, path, val) ==
    IF path = <<>> \/ Head(path) # "/" \/ v.kind # "obj" THEN PatchFail
    ELSE [ok |-> TRUE,
          v |-> [v EXCEPT !.members = <<[name |-> Lit(Str(Tail(path))), value |-> val]>>]]

\* Patch, but add appends a member even when one of that name exists.
PatchAppend(v, op, path, val) ==
    IF path = <<>> \/ Head(path) # "/" \/ v.kind # "obj" THEN PatchFail
    ELSE [ok |-> TRUE,
          v |-> [v EXCEPT !.members =
                    Append(@, [name |-> Lit(Str(Tail(path))), value |-> val])]]

\* Value.Patch with one operation (RFC 6902) whose path names a member of the
\* top-level value: add sets the member's value, appending the member when the
\* object has none of that name; replace needs the member to exist.
Patch(v, op, path, val) ==
    IF path = <<>> \/ Head(path) # "/" \/ v.kind # "obj" THEN PatchFail
    ELSE LET name == Tail(path)
             idx == MemberIndex(v, name)
         IN  IF idx > 0 /\ op \in {"add", "replace"} THEN
                 [ok |-> TRUE, v |-> [v EXCEPT !.members[idx].value = val]]
             ELSE IF op = "add" THEN
                 [ok |-> TRUE,
                  v |-> [v EXCEPT !.members =
                            Append(@, [name |-> Lit(Str(name)), value |-> val])]]
             ELSE PatchFail

\* --------------------------------------------------------- json.Marshal

\* Characters in byte order.
ByteOrder == <<".", "1", "2", "9", "a", "e", "m", "n", "s", "t", "v">>

Rank(c) == CHOOSE i \in 1..Len(ByteOrder) : ByteOrder[i] = c

RECURSIVE StrLess(_, _)
StrLess(a, b) ==
    IF b = <<>> THEN FALSE
    ELSE IF a = <<>> THEN TRUE
    ELSE IF Head(a) = Head(b) THEN StrLess(Tail(a), Tail(b))
    ELSE Rank(Head(a)) < Rank(Head(b))

RECURSIVE SortedKeys(_)
SortedKeys(ks) ==
    IF ks = {} THEN <<>>
    ELSE LET k == CHOOSE x \in ks : \A y \in ks \ {x} : StrLess(x, y)
         IN  <<k>> \o SortedKeys(ks \ {k})

RECURSIVE MarshalEntries(_, _)
MarshalEntries(m, ks) ==
    IF ks = <<>> THEN <<>>
    ELSE <<Str(Head(ks)), Colon, Str(m[Head(ks)])>>
         \o (IF Len(ks) > 1 THEN <<Comma>> ELSE <<>>)
         \o MarshalEntries(m, Tail(ks))

\* json.Marshal of a map[string]string: a compact object, keys sorted.
Marshal(m) == <<LBrace>> \o MarshalEntries(m, SortedKeys(DOMAIN m)) \o <<RBrace>>

\* ------------------------------------------------------------- main.go

\* strings.Split(s, "."): the pieces of s between its dots.
RECURSIVE Split(_)
Split(s) ==
    LET dots == {i \in 1..Len(s) : s[i] = "."}
    IN  IF dots = {} THEN <<s>>
        ELSE LET d == CHOOSE i \in dots : \A j \in dots : i <= j
             IN  <<SubSeq(s, 1, d - 1)>> \o Split(SubSeq(s, d + 1, Len(s)))

ErrInvalidDeviceName == "invalid device name: missing ts.net suffix"
ErrMissingPolicy == "missing policy"
ErrNoCredentials == "either api key or oauth credentials must be provided"

\* deviceShortDomain, but two components are enough.
deviceShortDomainTwo(name) ==
    LET parts == Split(name)
        bad == [ok |-> FALSE, name |-> <<>>, err |-> ErrInvalidDeviceName, arg |-> name]
    IN  IF Len(parts) < 2 THEN bad
        ELSE IF parts[Len(parts) - 1] = <<"t", "s">>
                /\ parts[Len(parts)] = <<"n", "e", "t">>
        THEN [ok |-> TRUE, name |-> parts[1], err |-> "", arg |-> name]
        ELSE bad

\* deviceShortDomain(device): the first label of a name that ends in ts.net.
deviceShortDomain(name) ==
    LET parts == Split(name)
        bad == [ok |-> FALSE, name |-> <<>>, err |-> ErrInvalidDeviceName, arg |-> name]
    IN  IF Len(parts) < 3 THEN bad
        ELSE IF parts[Len(parts) - 1] = <<"t", "s">>
                /\ parts[Len(parts)] = <<"n", "e", "t">>
        THEN [ok |-> TRUE, name |-> parts[1], err |-> "", arg |-> name]
        ELSE bad

EmptyMap == [k \in {} |-> <<>>]
MapPut(m, k, v) == [x \in DOMAIN m \cup {k} |-> IF x = k THEN v ELSE m[x]]
NilHosts == [nil |-> TRUE, m |-> EmptyMap]

\* fetchLoop, but a device with an invalid name is skipped.
RECURSIVE fetchLoopSkip(_, _)
fetchLoopSkip(devs, m) ==
    IF devs = <<>> THEN [res |-> "ok", hosts |-> [nil |-> FALSE, m |-> m], err |-> ""]
    ELSE LET d == Head(devs)
             r == deviceShortDomain(d.Name)
         IN  IF ~r.ok THEN fetchLoopSkip(Tail(devs), m)
             ELSE IF d.Addresses = <<>> THEN
                 [res |-> "panic", hosts |-> NilHosts, err |-> "index out of range"]
             ELSE fetchLoopSkip(Tail(devs), MapPut(m, r.name, d.Addresses[1]))

\* The loop of fetchHosts over the devices listed; an index into an empty
\* address list is a run-time panic.
RECURSIVE fetchLoop(_, _)
fetchLoop(devs, m) ==
    IF devs = <<>> THEN [res |-> "ok", hosts |-> [nil |-> FALSE, m |-> m], err |-> ""]
    ELSE LET d == Head(devs)
             r == deviceShortDomain(d.Name)
         IN  IF ~r.ok THEN [res |-> "error", hosts |-> NilHosts, err |-> "bad host"]
             ELSE IF d.Addresses = <<>> THEN
                 [res |-> "panic", hosts |-> NilHosts, err |-> "index out of range"]
             ELSE fetchLoop(Tail(devs), MapPut(m, r.name, d.Addresses[1]))

\* fetchHosts given what client.Devices().List returned.
fetchHosts(listFails, devs) ==
    IF listFails
    THEN [res |-> "error", hosts |-> NilHosts, err |-> "failed to fetch Tailscale devices"]
    ELSE fetchLoop(devs, EmptyMap)

ZeroConfig == [APIKey |-> "", ClientID |-> "", ClientSecret |-> "", PolicyFile |-> ""]

\* parseFlags: a flag left empty falls back to its environment variable;
\* exactly one positional argument names the policy file.
parseFlags(args, flags, env) ==
    LET pick(f) == IF flags[f] = "" THEN env[f] ELSE flags[f]
    IN  IF Len(args) # 1 THEN [ok |-> FALSE, cfg |-> ZeroConfig, err |-> ErrMissingPolicy]
        ELSE [ok |-> TRUE,
              cfg |-> [APIKey |-> pick("APIKey"), ClientID |-> pick("ClientID"),
                       ClientSecret |-> pick("ClientSecret"), PolicyFile |-> args[1]],
              err |-> ""]

createTailscaleClient(c) ==
    IF c.ClientID # "" /\ c.ClientSecret # "" THEN [ok |-> TRUE, client |-> "oauth", err |-> ""]
    ELSE IF c.APIKey # "" THEN [ok |-> TRUE, client |-> "apikey", err |-> ""]
    ELSE [ok |-> FALSE, client |-> "none", err |-> ErrNoCredentials]

\* ------------------------------------------------------------------ inputs

\* All concatenations of at most n of the chunks.
RECURSIVE Concats(_, _)
Concats(chunks, n) ==
    IF n = 0 THEN {<<>>}
    ELSE LET shorter == Concats(chunks, n - 1)
         IN  shorter \cup {s \o c : s \in shorter, c \in chunks}

TsNet == <<".", "t", "s", ".", "n", "e", "t">>
NameChunks == {<<"a">>, <<".">>, <<"t", "s">>, <<"n", "e", "t">>, TsNet}
Names == Concats(NameChunks, MaxNameChunks)

DeviceNames == {<<"n", ".", "a">> \o TsNet, <<"n">> \o TsNet, <<"m">> \o TsNet,
                <<"n", ".", "a", ".", "n", "e", "t">>}
AddressLists == {<<>>, <<<<"1">>>>, <<<<"2">>, <<"1">>>>}
Devices == [Name : DeviceNames, Addresses : AddressLists]
DeviceLists == UNION {[1..n -> Devices] : n \in 0..MaxDevices}

ShortNames == {<<"n">>, <<"m">>}
Addrs == {<<"1">>}
HostMappings == UNION {[S -> Addrs] : S \in SUBSET ShortNames}

AclsMember ==
    <<Str(aclsKey), Colon, LBrace, TAB, Str(<<"a">>), Colon, Num(<<"1">>), RBrace, Comma>>
LastMember == <<Str(<<"e">>), Colon, Num(<<"2">>)>>
HostsMember ==
    <<Str(hostsKey), Colon, LBrace, Str(<<"n">>), Colon, Str(<<"9">>), RBrace, Comma>>
TextChunks == {<<LBrace>>, <<RBrace>>, AclsMember, HostsMember, LastMember,
               <<TAB, CM>>, <<Str(<<"v">>)>>}

\* No object of v has two members of one name.
RECURSIVE UniqueNames(_)
UniqueNames(v) ==
    \A i \in 1..Len(v.members) :
        /\ \A j \in 1..Len(v.members) :
               v.members[i].name.lit.s = v.members[j].name.lit.s => i = j
        /\ UniqueNames(v.members[i].value)

\* The file contents drawn: parseable or not; objects with a repeated member
\* name are left out.
Texts ==
    {t \in Concats(TextChunks, MaxChunks) : Parse(t).ok => UniqueNames(Parse(t).v)}

NoFile == [exists |-> FALSE, data |-> <<>>]
File(t) == [exists |-> TRUE, data |-> t]
\* InitialText, but the new file already holds a member.
InitialTextMember == <<LBrace>> \o AclsMember \o <<RBrace>>
\* The text openPolicy writes into a file it creates.
InitialText == <<LBrace, NL, RBrace>>
\* The policy files a whole run is started on.
RunFiles == {NoFile, File(<<LBrace>> \o AclsMember \o HostsMember \o <<RBrace>>),
             File(<<LBrace, TAB>>)}
ArgLists == {<<>>, <<"policy.hujson">>, <<"policy.hujson", "extra">>}
Creds == [{"APIKey", "ClientID", "ClientSecret"} -> {"", "k"}]

\* ------------------------------------------------------------------- state

VARIABLES
    pc,         \* where the run stands
    cfg,        \* the Config parseFlags returned
    client,     \* the credential mode of the client: none, oauth, apikey
    devices,    \* what the directory call listed
    hosts,      \* fetchHosts' result, patchPolicy's argument
    file,       \* the policy file on disk
    src,        \* patchPolicy: the bytes read
    operation,  \* patchPolicy: the patch operation chosen
    output,     \* patchPolicy: value.String() after Patch and Format
    result,     \* how the run ended: none, ok, error, panic
    err,        \* the error returned
    file0,      \* the policy file when the run began
    touched,    \* a system call on the policy file has been made in this run
    runs,       \* the number of this run
    prev,       \* how the run before ended
    variant,    \* which patchPolicy runs: main (main.go) or old (the earlier one)
    name,       \* deviceShortDomain's argument
    short       \* deviceShortDomain's result

vars == <<pc, cfg, client, devices, hosts, file, src, operation, output, result,
          err, file0, touched, runs, prev, variant, name, short>>

NoShort == [ok |-> FALSE, name |-> <<>>, err |-> "", arg |-> <<>>]
NoPrev == [ok |-> FALSE, file |-> NoFile]

Fresh ==
    /\ src = <<>>
    /\ operation = ""
    /\ output = <<>>
    /\ result = "none"
    /\ err = ""
    /\ touched = FALSE
    /\ runs = 1
    /\ prev = NoPrev

Locals == Fresh /\ variant = "main"

\* A run of the program: main calls mainE.
Init ==
    /\ pc = "parseFlags"
    /\ cfg = ZeroConfig
    /\ client = "none"
    /\ devices = <<>>
    /\ hosts = NilHosts
    /\ file \in RunFiles
    /\ file0 = file
    /\ name = <<>>
    /\ short = NoShort
    /\ Locals

\* patchPolicy called on a policy file with a host mapping.
InitPatch ==
    /\ pc = "openPolicy"
    /\ cfg = [ZeroConfig EXCEPT !.PolicyFile = "policy.hujson"]
    /\ client = "none"
    /\ devices = <<>>
    /\ hosts \in {[nil |-> FALSE, m |-> m] : m \in HostMappings}
    /\ file \in {NoFile} \cup {File(t) : t \in Texts}
    /\ file0 = file
    /\ name = <<>>
    /\ short = NoShort
    /\ Locals

\* Either patchPolicy, that of main.go or the earlier one, called on a policy
\* file with a host mapping.
InitPatchBoth ==
    /\ pc = "openPolicy"
    /\ cfg = [ZeroConfig EXCEPT !.PolicyFile = "policy.hujson"]
    /\ client = "none"
    /\ devices = <<>>
    /\ hosts \in {[nil |-> FALSE, m |-> m] : m \in HostMappings}
    /\ file \in {NoFile} \cup {File(t) : t \in Texts}
    /\ file0 = file
    /\ name = <<>>
    /\ short = NoShort
    /\ variant \in {"main", "old"}
    /\ Fresh

\* deviceShortDomain called on a device name.
InitName ==
    /\ pc = "name"
    /\ cfg = ZeroConfig
    /\ client = "none"
    /\ devices = <<>>
    /\ hosts = NilHosts
    /\ file = NoFile
    /\ file0 = file
    /\ name \in Names
    /\ short = NoShort
    /\ Locals

Fail(e) ==
    /\ pc' = "done"
    /\ result' = "error"
    /\ err' = e

\* ------------------------------------------------------------------ mainE

ParseFlags ==
    /\ pc = "parseFlags"
    /\ \E args \in ArgLists, flags \in Creds, env \in Creds :
           LET r == parseFlags(args, flags, env)
           IN  IF r.ok
               THEN /\ cfg' = r.cfg
                    /\ pc' = "createClient"
                    /\ UNCHANGED <<result, err>>
               ELSE /\ Fail(r.err)
                    /\ UNCHANGED cfg
    /\ UNCHANGED <<client, devices, hosts, file, src, operation, output, file0,
                   touched, runs, prev, variant, name, short>>

CreateClient ==
    /\ pc = "createClient"
    /\ LET r == createTailscaleClient(cfg)
       IN  IF r.ok
           THEN /\ client' = r.client
                /\ pc' = "fetchHosts"
                /\ UNCHANGED <<result, err>>
           ELSE /\ Fail(r.err)
                /\ UNCHANGED client
    /\ UNCHANGED <<cfg, devices, hosts, file, src, operation, output, file0,
                   touched, runs, prev, variant, name, short>>

FetchHosts ==
    /\ pc = "fetchHosts"
    /\ \E listFails \in BOOLEAN, devs \in DeviceLists :
           LET r == fetchHosts(listFails, devs)
           IN  /\ listFails => devs = <<>>
               /\ devices' = devs
               /\ hosts' = r.hosts
               /\ IF r.res = "ok"
                  THEN /\ pc' = "openPolicy"
                       /\ UNCHANGED <<result, err>>
                  ELSE /\ pc' = "done"
                       /\ result' = r.res
                       /\ err' = r.err
    /\ UNCHANGED <<cfg, client, file, src, operation, output, file0, touched,
                   runs, prev, variant, name, short>>

\* ------------------------------------------------------------ patchPolicy

\* The proper prefixes of a text: what a write that fails may have written.
Prefixes(t) == {SubSeq(t, 1, n) : n \in 0..(Len(t) - 1)}

\* openPolicy: stat, create with the initial text when absent, stat, open.
OpenPolicy ==
    /\ pc = "openPolicy"
    /\ variant = "main"
    /\ touched' = TRUE
    /\ \/ /\ Fail("failed to check policy file")
          /\ UNCHANGED file
       \/ /\ ~file.exists
          /\ \/ /\ Fail("failed to create policy file")
                /\ UNCHANGED file
             \/ /\ Fail("failed to write initial JSON")
                /\ \E t \in Prefixes(InitialText) : file' = File(t)
             \/ /\ Fail("failed to stat new policy file")
                /\ file' = File(InitialText)
             \/ /\ Fail("failed read policy")
                /\ file' = File(InitialText)
             \/ /\ file' = File(InitialText)
                /\ pc' = "patch"
                /\ UNCHANGED <<result, err>>
       \/ /\ file.exists
          /\ UNCHANGED file
          /\ \/ Fail("failed read policy")
             \/ /\ pc' = "patch"
                /\ UNCHANGED <<result, err>>
    /\ UNCHANGED <<cfg, client, devices, hosts, src, operation, output, file0,
                   runs, prev, variant, name, short>>

hostsPointer == <<"/">> \o hostsKey

\* The operation patchPolicy chooses for a parsed document.
Operation(value) == IF ~Find(value, hostsKey).found THEN "add" ELSE "replace"

\* PatchInMemory, but the file is opened for writing, and so emptied, before
\* its content is parsed.
PatchInMemoryTruncates ==
    /\ pc = "patch"
    /\ variant = "main"
    /\ src' = file.data
    /\ file' = File(<<>>)
    /\ LET parsed == Parse(file.data)
           op == Operation(parsed.v)
           patched == Patch(parsed.v, op, hostsPointer, Parse(Marshal(hosts.m)).v)
       IN  IF ~parsed.ok THEN
               /\ Fail("failed parse policy")
               /\ UNCHANGED <<operation, output>>
           ELSE IF ~patched.ok THEN
               /\ Fail("failed to update policy")
               /\ operation' = op
               /\ UNCHANGED output
           ELSE
               /\ operation' = op
               /\ output' = String(Format(patched.v))
               /\ pc' = "write"
               /\ UNCHANGED <<result, err>>
    /\ UNCHANGED <<cfg, client, devices, hosts, file0, touched, runs, prev,
                   variant, name, short>>

\* patchPolicy from io.ReadAll to value.Format: all in memory.
PatchInMemory ==
    /\ pc = "patch"
    /\ variant = "main"
    /\ \/ /\ Fail("failed read policy")
          /\ UNCHANGED <<src, operation, output>>
       \/ /\ src' = file.data
          /\ LET parsed == Parse(file.data)
                 op == Operation(parsed.v)
                 patched == Patch(parsed.v, op, hostsPointer, Parse(Marshal(hosts.m)).v)
             IN  IF ~parsed.ok THEN
                     /\ Fail("failed parse policy")
                     /\ UNCHANGED <<operation, output>>
                 ELSE IF ~patched.ok THEN
                     /\ Fail("failed to update policy")
                     /\ operation' = op
                     /\ UNCHANGED output
                 ELSE
                     /\ operation' = op
                     /\ output' = String(Format(patched.v))
                     /\ pc' = "write"
                     /\ UNCHANGED <<result, err>>
    /\ UNCHANGED <<cfg, client, devices, hosts, file, file0, touched, runs, prev,
                   variant, name, short>>

\* The earlier patchPolicy, os.Stat and os.Open: the file has to exist.
StatOpenOld ==
    /\ pc = "openPolicy"
    /\ variant = "old"
    /\ touched' = TRUE
    /\ \/ Fail("file does not exist")
       \/ /\ file.exists
          /\ \/ Fail("failed read policy")
             \/ /\ pc' = "patch"
                /\ UNCHANGED <<result, err>>
    /\ UNCHANGED <<cfg, client, devices, hosts, file, src, operation, output,
                   file0, runs, prev, variant, name, short>>

\* The earlier patchPolicy from io.ReadAll to value.Format: the operation is
\* always replace.
PatchInMemoryOld ==
    /\ pc = "patch"
    /\ variant = "old"
    /\ \/ /\ Fail("failed read policy")
          /\ UNCHANGED <<src, operation, output>>
       \/ /\ src' = file.data
          /\ LET parsed == Parse(file.data)
                 patched == Patch(parsed.v, "replace", hostsPointer,
                                  Parse(Marshal(hosts.m)).v)
             IN  IF ~parsed.ok THEN
                     /\ Fail("failed parse policy")
                     /\ UNCHANGED <<operation, output>>
                 ELSE IF ~patched.ok THEN
                     /\ Fail("failed to update policy")
                     /\ operation' = "replace"
                     /\ UNCHANGED output
                 ELSE
                     /\ operation' = "replace"
                     /\ output' = String(Format(patched.v))
                     /\ pc' = "write"
                     /\ UNCHANGED <<result, err>>
    /\ UNCHANGED <<cfg, client, devices, hosts, file, file0, touched, runs, prev,
                   variant, name, short>>

\* os.WriteFile: open with O_TRUNC, write, close.
WritePolicy ==
    /\ pc = "write"
    /\ \/ /\ Fail("failed to write policy")
          /\ UNCHANGED file
       \/ /\ Fail("failed to write policy")
          /\ \E t \in Prefixes(output) : file' = File(t)
       \/ /\ file' = File(output)
          /\ pc' = "done"
          /\ result' = "ok"
          /\ UNCHANGED err
    /\ UNCHANGED <<cfg, client, devices, hosts, src, operation, output, file0,
                   touched, runs, prev, variant, name, short>>

\* patchPolicy is called again with the same mapping on the file as it is.
Again ==
    /\ pc = "done"
    /\ runs < MaxRuns
    /\ pc' = "openPolicy"
    /\ runs' = runs + 1
    /\ prev' = [ok |-> result = "ok", file |-> file]
    /\ file0' = file
    /\ src' = <<>>
    /\ operation' = ""
    /\ output' = <<>>
    /\ result' = "none"
    /\ err' = ""
    /\ touched' = FALSE
    /\ UNCHANGED <<cfg, client, devices, hosts, file, variant, name, short>>

\* ------------------------------------------------------ deviceShortDomain

ShortDomain ==
    /\ pc = "name"
    /\ short' = deviceShortDomain(name)
    /\ pc' = "done"
    /\ UNCHANGED <<cfg, client, devices, hosts, file, src, operation, output,
                   result, err, file0, touched, runs, prev, variant, name>>

\* --------------------------------------------------------- specifications

Next ==
    \/ ParseFlags
    \/ CreateClient
    \/ FetchHosts
    \/ OpenPolicy
    \/ PatchInMemory
    \/ WritePolicy

NextPatch ==
    \/ OpenPolicy
    \/ PatchInMemory
    \/ WritePolicy
    \/ Again

NextPatchBoth ==
    \/ NextPatch
    \/ StatOpenOld
    \/ PatchInMemoryOld

NextName == ShortDomain

Spec == Init /\ [][Next]_vars
SpecPatch == InitPatch /\ [][NextPatch]_vars
SpecPatchBoth == InitPatchBoth /\ [][NextPatchBoth]_vars
SpecName == InitName /\ [][NextName]_vars
\* ------------------------------------------------------------ properties

\* What the file on disk parses to.
Disk(f) == Parse(f.data)

TopKeys(v) == {v.members[i].name.lit.s : i \in 1..Len(v.members)}
ValueOf(v, k) == v.members[MemberIndex(v, k)].value

\* A value without its whitespace, comments and trailing commas.
RECURSIVE Content(_)
RECURSIVE ContentMembers(_)
Content(v) ==
    [kind |-> v.kind, lit |-> v.lit, members |-> ContentMembers(v.members)]
ContentMembers(ms) ==
    IF ms = <<>> THEN <<>>
    ELSE <<[name |-> Head(ms).name.lit, value |-> Content(Head(ms).value)]>>
         \o ContentMembers(Tail(ms))

\* Document doc is an object whose hosts member is an object of strings that
\* maps exactly as m does.
HostsValueIs(doc, m) ==
    /\ doc.kind = "obj"
    /\ MemberIndex(doc, hostsKey) > 0
    /\ LET h == ValueOf(doc, hostsKey)
       IN  /\ h.kind = "obj"
           /\ Len(h.members) = Cardinality(DOMAIN m)
           /\ TopKeys(h) = DOMAIN m
           /\ \A i \in 1..Len(h.members) :
                  /\ h.members[i].value.kind = "lit"
                  /\ h.members[i].value.lit = Str(m[h.members[i].name.lit.s])

Succeeded == pc = "done" /\ result = "ok"

\* Errors of the file system, as opposed to errors of the document.
IOErrors ==
    {"failed to check policy file", "failed to create policy file",
     "failed to write initial JSON", "failed to stat new policy file",
     "failed read policy", "failed to write policy"}

\* C1: after a successful patchPolicy(path, M) the file parses to an object
\* whose top-level hosts value is exactly M: added when absent, replaced as a
\* whole when present, no old entry surviving.
C1_HostsIsMapping ==
    Succeeded => Disk(file).ok /\ HostsValueIs(Disk(file).v, hosts.m)

\* C1 witness: a successful patch of a document whose old hosts value had an
\* entry (n) that the new mapping lacks.
C1_Witness ==
    /\ Succeeded
    /\ file0.exists
    /\ Disk(file0).ok
    /\ MemberIndex(Disk(file0).v, hostsKey) > 0
    /\ <<"n">> \notin DOMAIN hosts.m
    /\ <<"m">> \in DOMAIN hosts.m

\* C2: a successful patchPolicy keeps every top-level key other than hosts:
\* the same keys, each with the same value.
C2_OtherKeysKept ==
    (Succeeded /\ file0.exists) =>
        LET before == Disk(file0).v
            after == Disk(file).v
        IN  /\ Disk(file0).ok /\ Disk(file).ok
            /\ TopKeys(before) \ {hostsKey} = TopKeys(after) \ {hostsKey}
            /\ \A k \in TopKeys(before) \ {hostsKey} :
                   Content(ValueOf(before, k)) = Content(ValueOf(after, k))

\* C2 witness: a successful patch of a document that held hosts and another
\* key, whose text the patch changed.
C2_Witness ==
    /\ Succeeded
    /\ file0.exists
    /\ aclsKey \in TopKeys(Disk(file0).v)
    /\ hostsKey \in TopKeys(Disk(file0).v)
    /\ file # file0

\* The documents a patch at /hosts applies to.
Patchable(t) == Parse(t).ok /\ Parse(t).v.kind = "obj"

\* C3: when the existing file does not parse, or the patch does not apply to
\* what it parses to, patchPolicy returns an error and the file is what it
\* was: nothing is written before parse and patch have succeeded.
C3_FailureLeavesFile ==
    /\ (file0.exists /\ err \in {"failed parse policy", "failed to update policy"}) =>
           /\ pc = "done"
           /\ result = "error"
           /\ file = file0
    /\ (file0.exists /\ ~Patchable(file0.data)) =>
           /\ file = file0
           /\ pc # "write"
           /\ (pc = "done" => result = "error")
    /\ (file0.exists /\ pc \in {"openPolicy", "patch", "write"}) => file = file0

\* C3 witness: a parse error on a file that existed and was not empty.
C3_Witness ==
    /\ pc = "done"
    /\ err = "failed parse policy"
    /\ file0.exists
    /\ file0.data # <<>>

\* C4: on a path with no file, patchPolicy creates the file with the text of
\* an empty object and, on success, leaves a document with the one key hosts,
\* whose value is M.
C4_MissingFile ==
    ~file0.exists =>
        /\ pc \in {"patch", "write"} => file = File(<<LBrace, NL, RBrace>>)
        /\ Succeeded =>
               /\ Disk(file).ok
               /\ Len(Disk(file).v.members) = 1
               /\ HostsValueIs(Disk(file).v, hosts.m)

\* C4 witness: a successful patch at a path that had no file, with a mapping
\* of two hosts.
C4_Witness ==
    /\ Succeeded
    /\ ~file0.exists
    /\ Cardinality(DOMAIN hosts.m) = 2

\* s ends with t.
EndsWith(s, t) ==
    Len(s) >= Len(t) /\ SubSeq(s, Len(s) - Len(t) + 1, Len(s)) = t

\* C5: deviceShortDomain succeeds exactly on the names that, split at the
\* dots, have three or more components of which the last two are ts and net
\* (the names that end in .ts.net), and then returns the first component; on
\* every other name it returns ErrInvalidDeviceName with the name.
C5_ShortDomain ==
    pc = "done" =>
        LET parts == Split(name)
            valid == /\ Len(parts) >= 3
                     /\ parts[Len(parts) - 1] = <<"t", "s">>
                     /\ parts[Len(parts)] = <<"n", "e", "t">>
        IN  /\ short.ok <=> valid
            /\ valid <=> EndsWith(name, TsNet)
            /\ valid =>
                   /\ short.name = parts[1]
                   /\ \A i \in 1..Len(short.name) : short.name[i] # "."
                   /\ SubSeq(name, 1, Len(short.name) + 1) = short.name \o <<".">>
            /\ ~valid => short.err = ErrInvalidDeviceName /\ short.arg = name

\* C5 witness: a name of four components is accepted.
C5_Witness ==
    /\ pc = "done"
    /\ short.ok
    /\ Len(Split(name)) = 4
    /\ short.name = <<"a">>

CredsOk(c) == (c.ClientID # "" /\ c.ClientSecret # "") \/ c.APIKey # ""
AllNamesValid(devs) == \A i \in 1..Len(devs) : EndsWith(devs[i].Name, TsNet)

C7_Original ==
    /\ (pc = "done" /\ file0.exists /\ Parse(file0.data).ok) =>
           result = "ok" \/ (result = "error" /\ err \in IOErrors)
    /\ (pc = "done" /\ runs >= 2 /\ prev.ok) =>
           \/ result = "ok" /\ file = prev.file
           \/ result = "error" /\ err \in IOErrors

\* C7 amended: on every parseable document whose top level is an object
\* patchPolicy succeeds (the file system permitting), and a second run with
\* the same mapping succeeds and leaves the text, and so the hosts value, of
\* the first.
C7_Idempotent ==
    /\ (pc = "done" /\ file0.exists /\ Patchable(file0.data)) =>
           result = "ok" \/ (result = "error" /\ err \in IOErrors)
    /\ (pc = "done" /\ runs >= 2 /\ prev.ok) =>
           \/ /\ result = "ok"
              /\ file = prev.file
              /\ HostsValueIs(Disk(file).v, hosts.m)
           \/ result = "error" /\ err \in IOErrors

\* C7 witness: the second of two successful runs, the first of which changed
\* the text of the file.
C7_Witness ==
    /\ Succeeded
    /\ runs = 2
    /\ prev.ok
    /\ file = prev.file
    /\ operation = "add"
    /\ Len(Disk(file).v.members) = 2

\* C8: a failed final write returns an error and leaves on disk the content
\* that was read: no truncated or partly written file.
C8_FailedWriteKeepsFile ==
    (pc = "done" /\ err = "failed to write policy") =>
        result = "error" /\ file = File(src)

\* C9: the operation is chosen from the parsed document: replace when it has
\* a top-level hosts key, add when it has none.
C9_OperationFromDocument ==
    (pc = "write" \/ Succeeded) =>
        operation = IF hostsKey \in TopKeys(Parse(src).v) THEN "replace" ELSE "add"

\* C10: fetchHosts returns for every device list: a mapping that holds the
\* first address of each device under its short name (of the last device of
\* that short name), or an error; it never ends the process.
C10_FetchHostsReturns ==
    /\ result # "panic"
    /\ (~hosts.nil /\ pc = "openPolicy") =>
           \A i \in 1..Len(devices) :
               LET n == Split(devices[i].Name)[1]
               IN  /\ n \in DOMAIN hosts.m
                   /\ \E j \in i..Len(devices) :
                          /\ Split(devices[j].Name)[1] = n
                          /\ \A k \in (j + 1)..Len(devices) :
                                 Split(devices[k].Name)[1] # n
                          /\ devices[j].Addresses # <<>>
                          /\ hosts.m[n] = devices[j].Addresses[1]
====
